---- MODULE Spec2Model ----
(***************************************************************************)
(* Model of the session/credential caching layer of nicegui-otf-api:      *)
(* storage.py (the three storage tiers and the helpers that write them)    *)
(* and demo.py (logout, get_otf, get_user, the page handlers and the login *)
(* form's try_login).                                                      *)
(*                                                                         *)
(* Every browser tab runs at most one page handler at a time.  A handler   *)
(* is a coroutine: it runs without interruption between two awaits that    *)
(* really suspend (client connection, the browser-local read, Otf.create,  *)
(* the data fetch), and handlers of other tabs run in between.  A write to *)
(* browser-local storage (ui.run_javascript, not awaited) and a            *)
(* ui.navigate.to take effect within the step that issues them.            *)
(***************************************************************************)
EXTENDS Integers, FiniteSets, Sequences, TLC

VARIABLES
    user,      \* app.storage.user: the user-scoped storage (shared by all tabs)
    tab,       \* app.storage.tab of every tab
    local,     \* the browser's localStorage (shared by all tabs), key -> text
    route,     \* the path every tab shows
    pc,        \* where the handler of every tab stands
    req,       \* the locals of the handler of every tab
    expired,   \* the token bundles of the logins 1..expired no longer verify
    nextLogin, \* number of successful OtfUser.login calls so far
    last,      \* what the last step did (operation, outcome, notification, navigation)
    job        \* SpecPure: the inputs and results of the classes table and of a
               \* browser-local round trip

vars == <<user, tab, local, route, pc, req, expired, nextLogin, last, job>>

-----------------------------------------------------------------------------
(* Bounds *)

MaxLogins == 2
MaxClasses == 2

Tabs == {"t1", "t2"}
Usernames == {"alice"}
Passwords == {"correct", "wrong"}
DeviceKeys == {"dk-a"}
Numerals == {"42"}
JsonLiterals == {"true", "false"}
DeviceTexts == {"dk-a", "42", "true", "null"}

-----------------------------------------------------------------------------
(* Python values that travel through the storage tiers *)

PyStr(s) == [type |-> "str", text |-> s]
PyInt(s) == [type |-> "int", text |-> s]
PyBool(s) == [type |-> "bool", text |-> s]
PyNone == [type |-> "none", text |-> ""]

\* an Otf object is told apart by the login it serves, its device identifier, the
\* call that built it and the tab whose handler built it
NoOtf == [tab |-> "", login |-> 0, device_key |-> PyNone, via |-> "none"]
NoUser == [login |-> 0, device_key |-> PyNone]

(* dict helpers *)
Empty == <<>>
Has(s, k) == k \in DOMAIN s
Put(s, k, v) == [x \in (DOMAIN s) \cup {k} |-> IF x = k THEN v ELSE s[x]]
Get(s, k, default) == IF Has(s, k) THEN s[k] ELSE default

LoginPath == "/login"
HomePath == "/"
ClassesPath == "/classes"
UpcomingPath == "/upcoming_classes"
NoPath == ""
Paths == {LoginPath, HomePath, ClassesPath, UpcomingPath}

TokenExpiredText == "Your token has expired, please log in again"
WrongLoginText == "Wrong username or password"

-----------------------------------------------------------------------------
(* storage.py: LocalStorage *)

\* json.dumps(value) spliced into the script as a JavaScript literal, which
\* localStorage.setItem then stores as text
JsText(value) ==
    IF value.type = "none" THEN "null" ELSE value.text

\* json.loads(val), with the raw value on JSONDecodeError or TypeError
JsonLoads(val) ==
    IF val = PyNone THEN PyNone
    ELSE IF val.text = "null" THEN PyNone
    ELSE IF val.text \in Numerals THEN PyInt(val.text)
    ELSE IF val.text \in JsonLiterals THEN PyBool(val.text)
    ELSE val

LocalStorage_set_item(ls, key, value) == Put(ls, key, JsText(value))

\* localStorage.getItem(key): the stored text, or null
LocalStorage_getItem(ls, key) == IF Has(ls, key) THEN PyStr(ls[key]) ELSE PyNone

LocalStorage_get_item(ls, key) == JsonLoads(LocalStorage_getItem(ls, key))

\* variant: the script is never run
LocalStorage_clear_noop(ls) == ls

LocalStorage_clear(ls) == Empty

-----------------------------------------------------------------------------
(* storage.py: the helpers.  A store is the three tiers a handler of one   *)
(* tab can write: [user, tab, local].                                      *)

Store(t) == [user |-> user, tab |-> tab[t], local |-> local]

get_tokens(u) == [login |-> u.login]
get_hydration_dict(otf) == [login |-> otf.login]

\* variant: app.storage.user["tokens"] is not written
add_user_to_storage_no_tokens(st, u) ==
    [user  |-> st.user,
     local |-> LocalStorage_set_item(st.local, "device_key", u.device_key),
     tab   |-> Put(st.tab, "user", u)]

add_user_to_storage(st, u) ==
    [user  |-> Put(st.user, "tokens", get_tokens(u)),
     local |-> LocalStorage_set_item(st.local, "device_key", u.device_key),
     tab   |-> Put(st.tab, "user", u)]

\* variant: the hydration blob is not written
add_otf_to_storage_no_blob(st, otf) ==
    [tab   |-> Put(st.tab, "otf", otf),
     local |-> LocalStorage_set_item(st.local, "device_key", otf.device_key),
     user  |-> st.user]

add_otf_to_storage(st, otf) ==
    [tab   |-> Put(st.tab, "otf", otf),
     local |-> LocalStorage_set_item(st.local, "device_key", otf.device_key),
     user  |-> Put(st.user, "otf_hydration_dict", get_hydration_dict(otf))]

\* variant: only the credential keys of user-scoped storage are removed
clear_all_storage_keeps_hydration(st) ==
    [user  |-> IF Has(st.user, "otf_hydration_dict")
               THEN Put(Empty, "otf_hydration_dict", st.user["otf_hydration_dict"])
               ELSE Empty,
     tab   |-> Empty,
     local |-> LocalStorage_clear(st.local)]

\* variant: app.storage.user.clear() left out
clear_all_storage_keeps_user(st) ==
    [user  |-> st.user,
     tab   |-> Empty,
     local |-> LocalStorage_clear(st.local)]

\* variant: app.storage.tab.clear() left out
clear_all_storage_keeps_tab(st) ==
    [user  |-> Empty,
     tab   |-> st.tab,
     local |-> LocalStorage_clear(st.local)]

clear_all_storage(st) ==
    [user  |-> Empty,
     tab   |-> Empty,
     local |-> LocalStorage_clear(st.local)]

\* variant: tab-scoped storage is one dict for all tabs
Commit_shared_tab(t, st) ==
    /\ user' = st.user
    /\ tab' = [x \in Tabs |-> st.tab]
    /\ local' = st.local

\* the three tiers after a handler of tab t wrote st
Commit(t, st) ==
    /\ user' = st.user
    /\ tab' = [tab EXCEPT ![t] = st.tab]
    /\ local' = st.local

-----------------------------------------------------------------------------
(* What a step reports in last *)

\* op: the operation; tab: the tab it ran in; login: how OtfUser.login ended;
\* cause: the exception raised inside the operation; exc: the exception that
\* left it; note, color: the ui.notify; nav: the ui.navigate.to; ret: the Otf
\* that get_otf returned and tier: the tier that answered; username: the
\* submitted name; cleared: clear_all_storage ran; full: no tier was empty
\* before the step; page, startExpired: the visit that the step ended
Step(t, op) ==
    [tab |-> t, op |-> op, login |-> "", cause |-> "", exc |-> "", note |-> "",
     color |-> "", nav |-> NoPath, ret |-> NoOtf, username |-> "", tier |-> "",
     cleared |-> FALSE, full |-> FALSE, page |-> NoPath, startExpired |-> FALSE]

Full(t) == user # Empty /\ tab[t] # Empty /\ local # Empty

\* page: the page of the handler; val: the reply of the browser-local read; usr:
\* the user that get_user returned; button: the home page's logout button is
\* there; startExpired: the token bundle was expired when the handler started;
\* hydratable: get_otf found a blob and a persisted device identifier
NoReq == [page |-> NoPath, val |-> PyNone, usr |-> NoUser, button |-> FALSE,
          startExpired |-> FALSE, hydratable |-> FALSE]

\* a step that no property looks at
Quiet == Step("", "")

Authenticated == Get(user, "authenticated", FALSE)

Verifies(tokens) == tokens.login > expired

TokensExpired == Has(user, "tokens") /\ ~Verifies(user["tokens"])

\* classes: the records of otf.get_classes(); rows, built: the rowData of the
\* grid; d: a device identifier; ls: the browser's localStorage; got: what
\* LocalStorage.get_item returned; phase: how far the round trip is
NoJob == [classes |-> <<>>, rows |-> <<>>, built |-> FALSE,
          d |-> "", ls |-> Empty, got |-> PyNone, phase |-> "new"]

Init ==
    /\ user = Empty
    /\ tab = [t \in Tabs |-> Empty]
    /\ local = Empty
    /\ route = [t \in Tabs |-> NoPath]
    /\ pc = [t \in Tabs |-> "idle"]
    /\ req = [t \in Tabs |-> NoReq]
    /\ expired = 0
    /\ nextLogin = 0
    /\ last = Quiet
    /\ job = NoJob

-----------------------------------------------------------------------------
(* The browser *)

\* the user opens a path in a tab (address bar, or a tab of the header)
Visit(t, p) ==
    /\ UNCHANGED job
    /\ pc[t] = "idle"
    /\ route' = [route EXCEPT ![t] = p]
    /\ pc' = [pc EXCEPT ![t] = "request"]
    /\ req' = [req EXCEPT ![t] = NoReq]
    /\ last' = Quiet
    /\ UNCHANGED <<user, tab, local, expired, nextLogin>>

\* the token bundle in user-scoped storage stops verifying (bundles expire in
\* the order of their logins)
Expire ==
    /\ UNCHANGED job
    /\ Has(user, "tokens")
    /\ Verifies(user["tokens"])
    /\ expired' = user["tokens"].login
    /\ last' = Quiet
    /\ UNCHANGED <<user, tab, local, route, pc, req, nextLogin>>

\* AuthMiddleware: a request of a protected path without authenticated = true
\* stores the path as referrer_path and is redirected to /login
AuthMiddleware(t) ==
    /\ UNCHANGED job
    /\ pc[t] = "request"
    /\ ~Authenticated
    /\ route[t] # LoginPath
    /\ user' = Put(user, "referrer_path", route[t])
    /\ route' = [route EXCEPT ![t] = LoginPath]
    /\ req' = [req EXCEPT ![t] = NoReq]
    /\ last' = Quiet
    /\ UNCHANGED <<tab, local, pc, expired, nextLogin>>

Passes(t) == pc[t] = "request" /\ (Authenticated \/ route[t] = LoginPath)

-----------------------------------------------------------------------------
(* demo.py: logout *)

\* ui.navigate.to(p) at the end of a handler: the tab requests p
navigate_to(t, p) ==
    /\ route' = [route EXCEPT ![t] = p]
    /\ pc' = [pc EXCEPT ![t] = "request"]
    /\ req' = [req EXCEPT ![t] = NoReq]

\* variant: ui.navigate.to("/login") left out
logout_stays(t) ==
    /\ Commit(t, clear_all_storage(Store(t)))
    /\ pc' = [pc EXCEPT ![t] = "idle"]
    /\ req' = [req EXCEPT ![t] = NoReq]
    /\ route' = route

logout(t) ==
    /\ Commit(t, clear_all_storage(Store(t)))
    /\ navigate_to(t, LoginPath)

-----------------------------------------------------------------------------
(* demo.py: the page handlers *)

\* login(): redirect when authenticated, else the form
login(t) ==
    /\ UNCHANGED job
    /\ Passes(t)
    /\ route[t] = LoginPath
    /\ IF Authenticated
       THEN /\ route' = [route EXCEPT ![t] = UpcomingPath]
            /\ pc' = pc
            /\ req' = [req EXCEPT ![t] = NoReq]
            /\ last' = Quiet
       ELSE /\ route' = route
            /\ pc' = [pc EXCEPT ![t] = "idle"]
            /\ req' = [req EXCEPT ![t] = NoReq]
            /\ last' = Quiet
    /\ UNCHANGED <<user, tab, local, expired, nextLogin>>

\* main_page() up to await ui.context.client.connected()
main_page(t) ==
    /\ UNCHANGED job
    /\ Passes(t)
    /\ route[t] = HomePath
    /\ pc' = [pc EXCEPT ![t] = "home"]
    /\ req' = [req EXCEPT ![t] = [NoReq EXCEPT !.page = HomePath]]
    /\ last' = Quiet
    /\ UNCHANGED <<user, tab, local, route, expired, nextLogin>>

\* main_page() after the connection: the greeting and the logout button
main_page_render(t) ==
    /\ UNCHANGED job
    /\ pc[t] = "home"
    /\ pc' = [pc EXCEPT ![t] = "idle"]
    /\ IF Has(user, "username")
       THEN /\ req' = [req EXCEPT ![t].button = TRUE]
            /\ last' = Quiet
       ELSE /\ req' = req
            /\ last' = Quiet
    /\ UNCHANGED <<user, tab, local, route, expired, nextLogin>>

\* classes() and upcoming_classes() up to the first await of get_otf()
listing(t) ==
    /\ UNCHANGED job
    /\ Passes(t)
    /\ route[t] \in {ClassesPath, UpcomingPath}
    /\ pc' = [pc EXCEPT ![t] = "connecting"]
    /\ req' = [req EXCEPT ![t] = [NoReq EXCEPT !.page = route[t],
                                              !.startExpired = TokensExpired]]
    /\ last' = Quiet
    /\ UNCHANGED <<user, tab, local, route, expired, nextLogin>>

-----------------------------------------------------------------------------
(* demo.py: get_otf and get_user *)

Otf_hydrate(blob, device_key, t) ==
    [tab |-> t, login |-> blob.login, device_key |-> device_key, via |-> "hydrate"]

Otf_create(u, t) ==
    [tab |-> t, login |-> u.login, device_key |-> u.device_key, via |-> "create"]

OtfUser_from_token(tokens, device_key) ==
    [login |-> tokens.login, device_key |-> device_key]

\* variant: the tab-scoped session is not looked up
get_otf_tier_no_cache(t) ==
    IF Has(user, "otf_hydration_dict") /\ Has(tab[t], "device_key") THEN "hydrate"
    ELSE "user"

\* the tier of the lookup chain that answers get_otf() in tab t
get_otf_tier(t) ==
    IF Has(tab[t], "otf") THEN "tab"
    ELSE IF Has(user, "otf_hydration_dict") /\ Has(tab[t], "device_key") THEN "hydrate"
    ELSE "user"

\* get_otf() from the connection to its return or to the next await
get_otf(t) ==
    /\ UNCHANGED job
    /\ pc[t] = "connecting"
    /\ LET tier == get_otf_tier(t)
           hyd == Has(user, "otf_hydration_dict") /\ Has(local, "device_key")
                    /\ ~Has(tab[t], "otf")
       IN
       CASE tier = "tab" ->
              /\ pc' = [pc EXCEPT ![t] = "fetch"]
              /\ req' = req
              /\ last' = [Step(t, "get_otf") EXCEPT !.ret = tab[t]["otf"], !.tier = "tab"]
              /\ UNCHANGED <<user, tab, local>>
         [] tier = "hydrate" ->
              /\ LET otf == Otf_hydrate(user["otf_hydration_dict"],
                                        tab[t]["device_key"], t)
                 IN /\ Commit(t, add_otf_to_storage(Store(t), otf))
                    /\ last' = [Step(t, "get_otf") EXCEPT !.ret = otf, !.tier = "hydrate"]
              /\ pc' = [pc EXCEPT ![t] = "fetch"]
              /\ req' = [req EXCEPT ![t].hydratable = hyd]
         [] OTHER ->
              \* get_user(): the cached user, or the browser-local read
              /\ IF Has(tab[t], "user")
                 THEN /\ pc' = [pc EXCEPT ![t] = "create"]
                      /\ req' = [req EXCEPT ![t].usr = tab[t]["user"],
                                            ![t].hydratable = hyd]
                 ELSE /\ pc' = [pc EXCEPT ![t] = "get_item"]
                      /\ req' = [req EXCEPT ![t].hydratable = hyd]
              /\ last' = [Step(t, "get_otf_get_user") EXCEPT !.tier = "user"]
              /\ UNCHANGED <<user, tab, local>>
    /\ UNCHANGED <<route, expired, nextLogin>>

\* the browser runs localStorage.getItem("device_key")
run_javascript_get(t) ==
    /\ UNCHANGED job
    /\ pc[t] = "get_item"
    /\ pc' = [pc EXCEPT ![t] = "got_item"]
    /\ req' = [req EXCEPT ![t].val = LocalStorage_getItem(local, "device_key")]
    /\ last' = Quiet
    /\ UNCHANGED <<user, tab, local, route, expired, nextLogin>>

\* get_user() from the reply of the browser-local read to its end
get_user(t) ==
    /\ UNCHANGED job
    /\ pc[t] = "got_item"
    /\ LET device_key == JsonLoads(req[t].val)
           cause == IF ~Has(user, "tokens") THEN "KeyError"
                    ELSE IF ~Verifies(user["tokens"])
                         THEN "TokenVerificationException"
                    ELSE ""
       IN
       IF cause = ""
       THEN LET u == OtfUser_from_token(user["tokens"], device_key)
            IN /\ tab' = [tab EXCEPT ![t] = Put(tab[t], "user", u)]
               /\ pc' = [pc EXCEPT ![t] = "create"]
               /\ req' = [req EXCEPT ![t].usr = u]
               /\ last' = Step(t, "get_user")
               /\ UNCHANGED <<user, local, route>>
       ELSE \* notify, logout(), and "await logout()" raises TypeError
            /\ logout(t)
            /\ last' = [Step(t, "get_user") EXCEPT
                            !.cause = cause, !.exc = "TypeError",
                            !.note = TokenExpiredText, !.color = "negative",
                            !.nav = route'[t], !.cleared = TRUE, !.full = Full(t),
                            !.page = req[t].page,
                            !.startExpired = req[t].startExpired]
    /\ UNCHANGED <<expired, nextLogin>>

\* get_otf() after Otf.create(user=user) returned
get_otf_created(t) ==
    /\ UNCHANGED job
    /\ pc[t] = "create"
    /\ LET otf == Otf_create(req[t].usr, t)
       IN /\ Commit(t, add_otf_to_storage(Store(t), otf))
          /\ last' = [Step(t, "get_otf") EXCEPT !.ret = otf, !.tier = "user"]
    /\ pc' = [pc EXCEPT ![t] = "fetch"]
    /\ UNCHANGED <<route, req, expired, nextLogin>>

\* the page handler after otf.get_classes() / otf.get_bookings() returned
render(t) ==
    /\ UNCHANGED job
    /\ pc[t] = "fetch"
    /\ pc' = [pc EXCEPT ![t] = "idle"]
    /\ req' = [req EXCEPT ![t] = NoReq]
    /\ last' = [Step(t, "render") EXCEPT !.page = req[t].page,
                                         !.startExpired = req[t].startExpired]
    /\ UNCHANGED <<user, tab, local, route, expired, nextLogin>>

-----------------------------------------------------------------------------
(* demo.py: the buttons *)

\* the footer's button: on_click=logout
footer_logout(t) ==
    /\ UNCHANGED job
    /\ pc[t] = "idle"
    /\ route[t] # NoPath
    /\ logout(t)
    /\ last' = [Step(t, "footer_logout") EXCEPT !.nav = route'[t], !.cleared = TRUE,
                                                !.full = Full(t)]
    /\ UNCHANGED <<expired, nextLogin>>

\* the home page's button: (app.storage.user.clear(), ui.navigate.to("/login"))
home_logout(t) ==
    /\ UNCHANGED job
    /\ pc[t] = "idle"
    /\ route[t] = HomePath
    /\ req[t].button
    /\ user' = Empty
    /\ navigate_to(t, LoginPath)
    /\ last' = [Step(t, "home_logout") EXCEPT !.nav = LoginPath, !.full = Full(t)]
    /\ UNCHANGED <<tab, local, expired, nextLogin>>

\* OtfUser.login(username, password): "ok", or the exception it raises
OtfUser_login(password, verifies) ==
    IF password # "correct" THEN "Exception"
    ELSE IF ~verifies THEN "TokenVerificationException"
    ELSE "ok"

\* variant: the branch clears user-scoped storage
try_login_token_failure_clears(st) == [st EXCEPT !.user = Empty]

\* try_login(): the except TokenVerificationException branch
try_login_token_failure(st) ==
    [st EXCEPT !.user = Put(st.user, "authenticated", FALSE)]

\* the login form's button: try_login()
try_login(t, username, password, verifies, dk) ==
    /\ UNCHANGED job
    /\ pc[t] = "idle"
    /\ route[t] = LoginPath
    /\ IF Get(user, "authenticated", FALSE)
       THEN /\ last' = [Step(t, "try_login") EXCEPT !.username = username,
                                                   !.cause = "skipped"]
            /\ UNCHANGED <<user, tab, local, nextLogin>>
       ELSE LET outcome == OtfUser_login(password, verifies) IN
            CASE outcome = "ok" ->
                   /\ nextLogin < MaxLogins
                   /\ LET u == [login |-> nextLogin + 1, device_key |-> PyStr(dk)]
                          updated == Put(Put(user, "username", username),
                                         "authenticated", TRUE)
                          st == [Store(t) EXCEPT !.user = updated]
                      IN Commit(t, add_user_to_storage(st, u))
                   /\ nextLogin' = nextLogin + 1
                   \* "await add_user_to_storage(user)" raises TypeError
                   /\ last' = [Step(t, "try_login") EXCEPT
                                   !.username = username, !.cause = "TypeError",
                                   !.login = outcome, !.exc = "",
                                   !.note = WrongLoginText, !.color = "negative"]
              [] outcome = "TokenVerificationException" ->
                   /\ Commit(t, try_login_token_failure(Store(t)))
                   /\ last' = [Step(t, "try_login") EXCEPT
                                   !.username = username, !.cause = outcome,
                                   !.login = outcome,
                                   !.note = TokenExpiredText, !.color = "negative"]
                   /\ UNCHANGED nextLogin
              [] OTHER ->
                   /\ last' = [Step(t, "try_login") EXCEPT
                                   !.username = username, !.cause = outcome,
                                   !.login = outcome,
                                   !.note = WrongLoginText, !.color = "negative"]
                   /\ UNCHANGED <<user, tab, local, nextLogin>>
    /\ UNCHANGED <<route, pc, req, expired>>

-----------------------------------------------------------------------------

Next ==
    \/ \E t \in Tabs, p \in Paths : Visit(t, p)
    \/ Expire
    \/ \E t \in Tabs : AuthMiddleware(t)
    \/ \E t \in Tabs : login(t)
    \/ \E t \in Tabs : main_page(t)
    \/ \E t \in Tabs : main_page_render(t)
    \/ \E t \in Tabs : listing(t)
    \/ \E t \in Tabs : get_otf(t)
    \/ \E t \in Tabs : run_javascript_get(t)
    \/ \E t \in Tabs : get_user(t)
    \/ \E t \in Tabs : get_otf_created(t)
    \/ \E t \in Tabs : render(t)
    \/ \E t \in Tabs : footer_logout(t)
    \/ \E t \in Tabs : home_logout(t)
    \/ \E t \in Tabs, u \in Usernames, p \in Passwords, v \in BOOLEAN, dk \in DeviceKeys :
            try_login(t, u, p, v, dk)

Spec == Init /\ [][Next]_vars

-----------------------------------------------------------------------------
(* demo.py: the rows of the classes table; storage.py: a round trip through    *)
(* browser-local storage.  SpecPure draws their inputs and applies them.       *)

Coaches == {"Ana"}
Studios == {"Downtown"}
ClassTypes == {"ORANGE_60"}
ClassNames == {"Orange 60", "Tread 50"}
StartTimes == {[year |-> 2024, month |-> 5, day |-> 3, hour |-> 6, minute |-> 15]}
Days == {"Friday"}
Durations == {"60"}

ClassRecords ==
    [day_of_week : Days, starts_at_local : StartTimes, duration : Durations,
     name : ClassNames, coach : [first_name : Coaches], studio : [name : Studios],
     class_type : [name : ClassTypes], is_booked : BOOLEAN,
     waitlist_available : BOOLEAN, is_home_studio : BOOLEAN]

ClassLists == UNION {[1..n -> ClassRecords] : n \in 0..MaxClasses}

Pad2(n) == IF n < 10 THEN "0" \o ToString(n) ELSE ToString(n)

\* strftime("%Y-%m-%d") and strftime("%H:%M")
strftime_date(dt) == ToString(dt.year) \o "-" \o Pad2(dt.month) \o "-" \o Pad2(dt.day)
strftime_time(dt) == Pad2(dt.hour) \o ":" \o Pad2(dt.minute)

\* variant: the two booking flags are taken from each other's attribute
classes_row_swapped(class_) ==
    ("Day Of Week" :> PyStr(class_.day_of_week))
    @@ ("Start Date" :> PyStr(strftime_date(class_.starts_at_local)))
    @@ ("Start Time" :> PyStr(strftime_time(class_.starts_at_local)))
    @@ ("Duration" :> PyStr(class_.duration))
    @@ ("Class Name" :> PyStr(class_.name))
    @@ ("Coach Name" :> PyStr(class_.coach.first_name))
    @@ ("Studio Name" :> PyStr(class_.studio.name))
    @@ ("Class Type" :> PyStr(class_.class_type.name))
    @@ ("Is Booked" :> class_.waitlist_available)
    @@ ("Waitlist Available" :> class_.is_booked)
    @@ ("Home Studio" :> class_.is_home_studio)

\* the dict that classes() appends for one record
classes_row(class_) ==
    ("Day Of Week" :> PyStr(class_.day_of_week))
    @@ ("Start Date" :> PyStr(strftime_date(class_.starts_at_local)))
    @@ ("Start Time" :> PyStr(strftime_time(class_.starts_at_local)))
    @@ ("Duration" :> PyStr(class_.duration))
    @@ ("Class Name" :> PyStr(class_.name))
    @@ ("Coach Name" :> PyStr(class_.coach.first_name))
    @@ ("Studio Name" :> PyStr(class_.studio.name))
    @@ ("Class Type" :> PyStr(class_.class_type.name))
    @@ ("Is Booked" :> class_.is_booked)
    @@ ("Waitlist Available" :> class_.waitlist_available)
    @@ ("Home Studio" :> class_.is_home_studio)

\* rows = []; for class_ in classes.classes: rows.append({...})
RECURSIVE classes_rows(_)
classes_rows(cs) ==
    IF cs = <<>> THEN <<>>
    ELSE Append(classes_rows(SubSeq(cs, 1, Len(cs) - 1)), classes_row(cs[Len(cs)]))

\* the fields of the grid's columnDefs
ColumnFields ==
    {"Day Of Week", "Start Date", "Start Time", "Duration", "Class Name",
     "Coach Name", "Studio Name", "Class Type", "Is Booked", "Waitlist Available",
     "Home Studio"}

MainVars == <<user, tab, local, route, pc, req, expired, nextLogin, last>>

InitPure ==
    /\ user = Empty
    /\ tab = [t \in Tabs |-> Empty]
    /\ local = Empty
    /\ route = [t \in Tabs |-> NoPath]
    /\ pc = [t \in Tabs |-> "idle"]
    /\ req = [t \in Tabs |-> NoReq]
    /\ expired = 0
    /\ nextLogin = 0
    /\ last = Quiet
    /\ job \in {[NoJob EXCEPT !.classes = cs, !.d = d] :
                    cs \in ClassLists, d \in DeviceTexts}

\* classes() from the records of get_classes() to the grid
classes_grid ==
    /\ ~job.built
    /\ job' = [job EXCEPT !.rows = classes_rows(job.classes), !.built = TRUE]
    /\ UNCHANGED MainVars

\* LocalStorage.set_item("device_key", d)
set_item ==
    /\ job.phase = "new"
    /\ job' = [job EXCEPT !.ls = LocalStorage_set_item(job.ls, "device_key", PyStr(job.d)),
                          !.phase = "set"]
    /\ UNCHANGED MainVars

\* LocalStorage.get_item("device_key")
get_item ==
    /\ job.phase = "set"
    /\ job' = [job EXCEPT !.got = LocalStorage_get_item(job.ls, "device_key"),
                          !.phase = "got"]
    /\ UNCHANGED MainVars

NextPure == classes_grid \/ set_item \/ get_item

SpecPure == InitPure /\ [][NextPure]_vars

\* the steps the server and the browser take on their own in tab t: the request,
\* its redirects and the handler up to its end
Handler(t) ==
    \/ AuthMiddleware(t)
    \/ login(t)
    \/ main_page(t)
    \/ main_page_render(t)
    \/ listing(t)
    \/ get_otf(t)
    \/ run_javascript_get(t)
    \/ get_user(t)
    \/ get_otf_created(t)
    \/ render(t)

\* the client connection establishes and the external calls return
FairSpec == Spec /\ \A t \in Tabs : WF_vars(Handler(t))

-----------------------------------------------------------------------------
(* Properties *)

AllEmpty(t) == user = Empty /\ tab[t] = Empty /\ local = Empty

StorageKeys ==
    {"username", "authenticated", "tokens", "otf_hydration_dict", "referrer_path",
     "user", "otf", "device_key"}

\* C1: a try_login whose OtfUser.login succeeds leaves authenticated = true, the
\* submitted username and a token bundle in user-scoped storage, and navigates the
\* tab to the stored referrer_path, or to /upcoming_classes when none is stored.
C1_LoginSuccessNavigates ==
    (last.op = "try_login" /\ last.login = "ok") =>
        /\ Get(user, "authenticated", FALSE) = TRUE
        /\ Get(user, "username", "") = last.username
        /\ Has(user, "tokens")
        /\ last.nav = Get(user, "referrer_path", UpcomingPath)

\* C2: when get_user fails token verification, the request ends with user-scoped
\* storage, the tab's tab-scoped storage and browser-local storage all empty and
\* the tab on /login.
C2_TokenFailureClearsAll ==
    (last.op = "get_user" /\ last.cause = "TokenVerificationException") =>
        /\ AllEmpty(last.tab)
        /\ route[last.tab] = LoginPath

C2_Witness ==
    /\ last.op = "get_user"
    /\ last.cause = "TokenVerificationException"
    /\ pc[last.tab] = "request"

\* C3: every logout button (footer, home page) leaves the three tiers of the
\* acting tab empty.
C3_EveryLogoutClearsAll ==
    last.op \in {"footer_logout", "home_logout"} => AllEmpty(last.tab)

\* C4: a get_otf that found a hydration blob and a device identifier but no
\* tab-scoped session returns a session built by Otf.hydrate (not Otf.create), and
\* that session is the one tab-scoped storage then holds.
C4_HydratesFromBlob ==
    \A t \in Tabs :
        (last.op = "get_otf" /\ last.tab = t /\ req[t].hydratable) =>
            /\ last.ret.via = "hydrate"
            /\ Get(tab[t], "otf", NoOtf) = last.ret

\* C5: a get_otf that finds a session in the tab's tab-scoped storage returns
\* that object and leaves the three tiers and the route as they were, whatever
\* user-scoped storage holds; the handler goes on to fetch with it.
C5_TabTierWins ==
    [][\A t \in Tabs :
        (pc[t] = "connecting" /\ pc'[t] # "connecting" /\ Has(tab[t], "otf")) =>
            /\ last'.op = "get_otf"
            /\ last'.ret = tab[t]["otf"]
            /\ user' = user /\ tab' = tab /\ local' = local /\ route' = route
            /\ pc'[t] = "fetch"]_vars

C5_Witness ==
    /\ last.op = "get_otf"
    /\ last.tier = "tab"
    /\ TokensExpired
    /\ Has(user, "otf_hydration_dict")

\* C6: after clear_all_storage, a lookup of any key is absent in user-scoped
\* storage, in the calling tab's tab-scoped storage and in browser-local storage.
C6_ClearAllLeavesNothing ==
    last.cleared =>
        \A k \in StorageKeys :
            /\ ~Has(user, k)
            /\ ~Has(tab[last.tab], k)
            /\ LocalStorage_get_item(local, k) = PyNone

C6_Witness == last.cleared /\ last.full /\ last.op = "footer_logout"

\* C7 as stated: a visit to /classes that starts with an expired token bundle in
\* user-scoped storage fetches no class data and ends on /login with the negative
\* "log in again" notification.
C7_ExpiredVisitRedirects ==
    \A t \in Tabs :
        /\ (req[t].page = ClassesPath /\ req[t].startExpired) => pc[t] # "fetch"
        /\ (last.tab = t /\ last.page = ClassesPath /\ last.startExpired) =>
                /\ route[t] = LoginPath
                /\ last.note = TokenExpiredText
                /\ last.color = "negative"

\* C7 amended: when get_user, in a visit to /classes by a tab that held neither a
\* session nor a user object, verifies a token bundle that has expired, the visit
\* ends there, on /login, with the negative "log in again" notification, and
\* without a fetch.
C7_ExpiredUncachedVisitRedirects ==
    [][\A t \in Tabs :
        (/\ pc[t] = "got_item" /\ pc'[t] # "got_item"
         /\ req[t].page = ClassesPath
         /\ ~Has(tab[t], "otf") /\ ~Has(tab[t], "user")
         /\ TokensExpired) =>
            /\ route'[t] = LoginPath
            /\ pc'[t] = "request"
            /\ last'.note = TokenExpiredText
            /\ last'.color = "negative"]_vars

C7_Witness ==
    /\ last.op = "get_user"
    /\ last.page = ClassesPath
    /\ last.cause = "TokenVerificationException"
    /\ last.startExpired

\* C8: when get_user resolves no credential (no cached user, no usable token
\* bundle), get_otf navigates to /login and returns None to the page handler:
\* no exception leaves it.
C8_NoCredentialReturnsNone ==
    (last.op = "get_user" /\ last.cause \in {"KeyError", "TokenVerificationException"}) =>
        /\ last.nav = LoginPath
        /\ last.exc = ""

\* C9: a try_login that ends with the "Wrong username or password" notification
\* leaves the three storage tiers as they were.
C9_GenericFailureKeepsStorage ==
    [][(last'.op = "try_login" /\ last'.note = WrongLoginText) =>
            (user' = user /\ tab' = tab /\ local' = local)]_vars

BundleLogins ==
    (IF Has(user, "tokens") THEN {user["tokens"].login} ELSE {})
        \cup {tab[t]["user"].login : t \in {x \in Tabs : Has(tab[x], "user")}}

\* C10: the token bundle in user-scoped storage and the credential objects in the
\* tabs' tab-scoped storage all stem from one login.
C10_OneCredentialBundle == Cardinality(BundleLogins) <= 1

Logouts == {"footer_logout", "home_logout"}

\* C11 as stated: once a logout has run (the token bundle is gone from
\* user-scoped storage after a login), user-scoped storage holds no hydration blob
\* until the next successful login stores a token bundle again.
C11_NoBlobAfterLogout ==
    (nextLogin > 0 /\ ~Has(user, "tokens")) => ~Has(user, "otf_hydration_dict")

\* C11 amended: every logout leaves user-scoped storage without a hydration
\* blob, and a blob appears in user-scoped storage only when a get_otf request
\* that stood at its connection or at Otf.create persists its session.
C11_BlobOnlyFromGetOtf ==
    [][/\ (last'.op \in Logouts \/ last'.cleared) => ~Has(user', "otf_hydration_dict")
       /\ (~Has(user, "otf_hydration_dict") /\ Has(user', "otf_hydration_dict")) =>
              /\ last'.op = "get_otf"
              /\ pc[last'.tab] \in {"connecting", "create"}]_vars

C11_Witness ==
    /\ last.op = "get_otf"
    /\ last.tier = "user"
    /\ nextLogin > 0
    /\ ~Has(user, "tokens")
    /\ Has(user, "otf_hydration_dict")

\* C12: a step changes the tab-scoped storage of no tab but the one it runs in.
C12_TabsIsolated ==
    [][\A t \in Tabs : tab'[t] # tab[t] => last'.tab = t]_vars

C12_Witness ==
    /\ last.op = "footer_logout"
    /\ \E o \in Tabs \ {last.tab} : Has(tab[o], "otf") /\ Has(tab[o], "user")
    /\ user = Empty

\* C15: a get_otf in a tab without a tab-scoped session, while user-scoped
\* storage holds a hydration blob and browser-local storage the persisted device
\* identifier, does not resolve credentials: it never enters get_user.
C15_FreshTabHydrates ==
    last.op = "get_otf_get_user" =>
        ~(Has(user, "otf_hydration_dict") /\ Has(local, "device_key"))

\* C16: when get_otf returns a session built from the user that get_user
\* returned, the tab's tab-scoped storage holds it under otf, user-scoped storage
\* its hydration blob under otf_hydration_dict and browser-local storage its
\* device identifier under device_key.
C16_CreatedSessionPersisted ==
    (last.op = "get_otf" /\ last.tier = "user") =>
        /\ last.ret.via = "create"
        /\ last.ret.login = req[last.tab].usr.login
        /\ Get(tab[last.tab], "otf", NoOtf) = last.ret
        /\ Has(user, "otf_hydration_dict")
        /\ user["otf_hydration_dict"] = get_hydration_dict(last.ret)
        /\ Has(local, "device_key")
        /\ local["device_key"] = JsText(last.ret.device_key)

C16_Witness ==
    /\ last.op = "get_otf"
    /\ last.tier = "user"
    /\ pc[last.tab] = "fetch"

\* C17: a try_login whose OtfUser.login raises TokenVerificationException sets
\* authenticated = false in user-scoped storage and writes nothing else, shows a
\* negative notification and does not navigate.
C17_LoginTokenFailure ==
    [][(last'.op = "try_login" /\ last'.login = "TokenVerificationException") =>
            /\ user' = Put(user, "authenticated", FALSE)
            /\ tab' = tab /\ local' = local
            /\ route' = route /\ pc' = pc
            /\ last'.color = "negative"
            /\ last'.nav = NoPath]_vars

C17_Witness ==
    /\ last.op = "try_login"
    /\ last.login = "TokenVerificationException"
    /\ Has(user, "referrer_path")
    /\ Has(user, "authenticated")

\* C18: in every state authenticated = true in user-scoped storage implies that
\* user-scoped storage holds a token bundle.
C18_AuthenticatedHasTokens ==
    Authenticated => Has(user, "tokens")

C18_Witness ==
    /\ Authenticated
    /\ nextLogin = MaxLogins
    /\ \E t \in Tabs : pc[t] = "create"

\* C19: under FairSpec every page visit settles: a tab that requests a page
\* comes to rest on a rendered page after finitely many redirects.
C19_VisitSettles ==
    \A t \in Tabs : (pc[t] = "request") ~> (pc[t] = "idle")

\* the failed user resolution of /upcoming_classes has cleared the authenticated
\* flag and sent the tab back to /login
C19_Witness ==
    /\ last.op = "get_user"
    /\ last.cause # ""
    /\ last.page = UpcomingPath
    /\ route[last.tab] = LoginPath
    /\ pc[last.tab] = "request"
    /\ ~Authenticated

\* C13: the classes page builds one row per class record, in input order, each
\* with exactly the eleven display fields, Is Booked and Waitlist Available being
\* the record's is_booked and waitlist_available.
C13_RowsOfClasses ==
    job.built =>
        /\ Len(job.rows) = Len(job.classes)
        /\ Cardinality(ColumnFields) = 11
        /\ \A i \in 1..Len(job.classes) :
              /\ DOMAIN job.rows[i] = ColumnFields
              /\ job.rows[i]["Class Name"] = PyStr(job.classes[i].name)
              /\ job.rows[i]["Is Booked"] = job.classes[i].is_booked
              /\ job.rows[i]["Waitlist Available"] = job.classes[i].waitlist_available

C13_Witness ==
    /\ job.built
    /\ Len(job.rows) = MaxClasses
    /\ job.classes[1].name # job.classes[2].name
    /\ job.rows[1]["Is Booked"] /\ ~job.rows[1]["Waitlist Available"]
    /\ ~job.rows[2]["Is Booked"] /\ job.rows[2]["Waitlist Available"]

\* C14: LocalStorage.set_item("device_key", d) followed by
\* LocalStorage.get_item("device_key") returns the string d.
C14_DeviceKeyRoundTrip ==
    job.phase = "got" => job.got = PyStr(job.d)

====
